---- MODULE Spec2Model ----
(***************************************************************************)
(* Model of the company-information pipeline of src/src/summarizer.py      *)
(* (CompanySummarizer) and of its command-line front-end src/src/main.py.  *)
(*                                                                         *)
(* Text is a sequence of characters; a Hangul syllable is written as its   *)
(* romanisation ("in","jae","sang" is the word 인재상).  A dict is a record *)
(* whose DOMAIN is its key set, so a key can be absent.  Python's None is  *)
(* the value None below, which no text equals.                             *)
(***************************************************************************)
EXTENDS Integers, Sequences, FiniteSets, TLC

VARIABLES
    pc,               \* position of the running call
    via,              \* who calls summarize_company: "main" (CLI) or "direct"
    env,              \* os.environ: which credentials are configured
    client,           \* self.client is not None
    company_name,     \* the company name entered
    company_url,      \* the optional homepage URL (None when not given)
    search_results,   \* the ResultSet under construction / returned
    website_content,  \* the homepage excerpt (None when absent)
    out,              \* the three sections of CompanySummaryResult
    log,              \* outbound calls issued so far, in order
    page,             \* extractor: the document the search engine serves
    args,             \* extractor: max_results and is_news of the call
    ext,              \* extractor: outcome of the GET and what the call returned
    served,           \* what the search and model services answered, in order
    gui               \* desktop front-end: widgets, worker threads, after() queue

vars == <<pc, via, env, client, company_name, company_url, search_results,
          website_content, out, log, page, args, ext, served, gui>>

---------------------------------------------------------------------------
(* Bounds of the model *)

\* longest document (in div blocks) over the small block alphabet
MaxBlocks == 6
\* most analyses started in one run of the desktop front-end
MaxClicks == 3
\* longest answer (in entries or blocks) served to the aggregator on its own
MaxHits == 6
\* longest document over the full block alphabet
MaxRichBlocks == 2
\* longest payload list / served page inside one pipeline run
MaxPayload == 2
\* longest ResultSet handed directly to the section generators
MaxResults == 3

---------------------------------------------------------------------------
(* Text *)

None == <<"<None>">>

Min(a, b) == IF a < b THEN a ELSE b

\* s[:n]
Take(s, n) == SubSeq(s, 1, Min(n, Len(s)))

\* str.lower(), one character
LowerChar(c) == IF c = "A" THEN "a" ELSE IF c = "Result" THEN "result" ELSE c

\* str.lower()
Lower(s) == [i \in 1..Len(s) |-> LowerChar(s[i])]

\* kw in s
Contains(s, kw) ==
    \E i \in 1..(Len(s) - Len(kw) + 1) : SubSeq(s, i, i + Len(kw) - 1) = kw

\* s.startswith(p)
StartsWith(s, p) == Len(s) >= Len(p) /\ SubSeq(s, 1, Len(p)) = p

\* bool(v) of a text or None
Truthy(v) == v # None /\ v # <<>>

\* how an f-string renders a text or None
Str(v) == IF v = None THEN <<"N", "o", "n", "e">> ELSE v

\* dict.get(key, default)
Get(d, key, default) == IF key \in DOMAIN d THEN d[key] ELSE default

\* dict.get(key)
GetOrNone(d, key) == Get(d, key, None)

---------------------------------------------------------------------------
(* The documents the search engine can serve.  A document is the sequence  *)
(* of its div elements in document order; a div is a dict of what the      *)
(* extractor looks up in it:                                               *)
(*   cls         the names in its class attribute                          *)
(*   title_elem  the element the title chain finds (absent: none found),   *)
(*               with its stripped text and its href (absent: no href)     *)
(*   snippet     the stripped text of the snippet element (absent: none)   *)
(*   date        the stripped text of the date element (absent: none)      *)
(*   head        what the redirect HEAD request for its link does          *)
(*   raises      whether parsing this block raises                         *)

CLS_RESULT == <<"result">>
CLS_WEB_RESULT == <<"web-", "result">>
CLS_RESULTS_LINKS == <<"Result", "s_links">>
CLS_PLAIN == <<"links_main">>

DDG_ORIGIN == <<"http", "s://duckduckgo.com">>
HREF_WRAPPED_KH == <<"/l/?", "kh=", "-1">>
HREF_WRAPPED == <<"/l/?", "uddg=", "x">>
HREF_RELATIVE == <<"/", "about">>
HREF_ABSOLUTE == <<"http", "://a.example">>
URL_RESOLVED == <<"http", "s://real.example">>

TXT_TALENT == <<"in", "jae">>
TXT_PLAIN == <<"A", "cme">>
TXT_NEWS == <<"nyu", "seu">>
TXT_DATE == <<"2024">>

Anchor(text, href) == [text |-> text, href |-> href]
NoHref(text) == [text |-> text]

Div(cls, t) == [cls |-> {cls}, title_elem |-> t, head |-> "ok", raises |-> FALSE]

\* the small block alphabet: the class decides the strategy, the title the skip
SmallBlocks ==
    { Div(CLS_RESULT, Anchor(TXT_PLAIN, HREF_ABSOLUTE)),
      Div(CLS_RESULT, Anchor(<<>>, HREF_ABSOLUTE)),
      Div(CLS_WEB_RESULT, Anchor(TXT_TALENT, HREF_ABSOLUTE)),
      Div(CLS_RESULTS_LINKS, Anchor(TXT_NEWS, HREF_ABSOLUTE)) }

\* the full block alphabet: every href shape, HEAD outcome and optional part
RichBlocks ==
    { [cls |-> {CLS_RESULT}, head |-> "ok", raises |-> FALSE],
      [cls |-> {CLS_RESULT}, title_elem |-> NoHref(TXT_PLAIN),
       head |-> "ok", raises |-> FALSE],
      [cls |-> {CLS_RESULT}, title_elem |-> Anchor(TXT_PLAIN, HREF_ABSOLUTE),
       head |-> "ok", raises |-> TRUE],
      [cls |-> {CLS_PLAIN}, title_elem |-> Anchor(TXT_PLAIN, HREF_ABSOLUTE),
       head |-> "ok", raises |-> FALSE],
      [cls |-> {CLS_RESULT, CLS_WEB_RESULT},
       title_elem |-> Anchor(TXT_PLAIN, HREF_RELATIVE),
       snippet |-> <<>>, date |-> <<>>, head |-> "ok", raises |-> FALSE] }
    \cup
    { [cls |-> {CLS_RESULT}, title_elem |-> Anchor(t, h), snippet |-> s,
       date |-> TXT_DATE, head |-> o, raises |-> FALSE] :
        t \in {TXT_TALENT, TXT_NEWS}, s \in {TXT_PLAIN},
        h \in {HREF_WRAPPED_KH, HREF_WRAPPED, HREF_RELATIVE, HREF_ABSOLUTE, <<>>},
        o \in {"ok", "error"} }

SeqsUpTo(S, n) == UNION { [1..k -> S] : k \in 0..n }

Docs == SeqsUpTo(SmallBlocks, MaxBlocks) \cup SeqsUpTo(RichBlocks, MaxRichBlocks)

---------------------------------------------------------------------------
(* _search_duckduckgo_html: the Result Extractor *)

\* soup.find_all("div", class_=name)
find_all_class(doc, name) == SelectSeq(doc, LAMBDA d : name \in d.cls)

\* soup.find_all("div", {"class": lambda x: x and "result" in x.lower()})
find_all_resultish(doc) ==
    SelectSeq(doc, LAMBDA d : \E c \in d.cls : Contains(Lower(c), CLS_RESULT))

\* mutant: the candidate lists are not cut to max_results before the loop
result_elements_unsliced(doc, max_results) ==
    LET a == find_all_class(doc, CLS_RESULT)
        b == find_all_class(doc, CLS_WEB_RESULT)
        c == find_all_resultish(doc)
    IN  IF a # <<>> THEN a ELSE IF b # <<>> THEN b ELSE c

\* mutant: only the permissive strategy is used, which merges all three
result_elements_merged(doc, max_results) ==
    Take(find_all_resultish(doc), max_results)

\* a[:m] or b[:m] or c[:m]
result_elements(doc, max_results) ==
    LET a == Take(find_all_class(doc, CLS_RESULT), max_results)
        b == Take(find_all_class(doc, CLS_WEB_RESULT), max_results)
        c == Take(find_all_resultish(doc), max_results)
    IN  IF a # <<>> THEN a ELSE IF b # <<>> THEN b ELSE c

\* the link of a title element after redirect resolution / prefixing
normalize_link(href, head) ==
    IF StartsWith(href, <<"/l/?", "kh=">>) \/ StartsWith(href, <<"/l/?">>)
    THEN IF head = "ok" THEN URL_RESOLVED ELSE href
    ELSE IF ~StartsWith(href, <<"http">>) THEN DDG_ORIGIN \o href
    ELSE href

\* whether the block makes the extractor issue a HEAD request
issues_head(e) ==
    /\ "title_elem" \in DOMAIN e
    /\ StartsWith(Get(e.title_elem, "href", <<>>), <<"/l/?">>)

\* the dict built for one accepted block
result_dict(e, is_news) ==
    LET base == [title |-> e.title_elem.text,
                 snippet |-> Get(e, "snippet", <<>>),
                 link |-> normalize_link(Get(e.title_elem, "href", <<>>), e.head)]
    IN  IF is_news
        THEN [title |-> base.title, snippet |-> base.snippet, link |-> base.link,
              date |-> Get(e, "date", <<>>)]
        ELSE base

\* the for loop over result_elements, from element i on; an exception leaves
\* the loop through the enclosing except with the results appended so far
RECURSIVE extract_loop(_, _, _, _, _)
extract_loop(elems, i, acc, max_results, is_news) ==
    IF i > Len(elems) THEN acc
    ELSE LET e == elems[i] IN
         IF e.raises THEN [acc EXCEPT !.examined = i]
         ELSE LET seen == [acc EXCEPT !.examined = i,
                                      !.heads = @ + (IF issues_head(e) THEN 1 ELSE 0)]
              IN  IF "title_elem" \in DOMAIN e /\ e.title_elem.text # <<>>
                  THEN LET nxt == [seen EXCEPT
                                     !.results = Append(@, result_dict(e, is_news))]
                       IN  IF Len(nxt.results) >= max_results THEN nxt
                           ELSE extract_loop(elems, i + 1, nxt, max_results, is_news)
                  ELSE extract_loop(elems, i + 1, seen, max_results, is_news)

\* the body of the try block once the page has been fetched and parsed
extract(doc, max_results, is_news) ==
    extract_loop(result_elements(doc, max_results), 1,
                 [results |-> <<>>, heads |-> 0, examined |-> 0],
                 max_results, is_news)

\* the whole function: a failed GET (transport error, raise_for_status) is caught
search_duckduckgo_html(outcome, doc, max_results, is_news) ==
    IF outcome = "ok" THEN extract(doc, max_results, is_news)
    ELSE [results |-> <<>>, heads |-> 0, examined |-> 0]

---------------------------------------------------------------------------
(* Section Classifier: the list comprehensions of the section functions.   *)
(* A comprehension either yields a list or raises (None has no lower()).   *)

KW_INJAESANG == <<"in", "jae", "sang">>
KW_CHAEYONG == <<"chae", "yong">>
KW_INJAE == <<"in", "jae">>
KW_INSA == <<"in", "sa">>
KW_INJAEGWAN == <<"in", "jae", "gwan">>
KW_NEWS == <<"nyu", "seu">>
KW_GISA == <<"gi", "sa">>

\* the keyword list of _generate_talent_profile (the model variant)
talent_keywords_model ==
    <<KW_INJAESANG, KW_CHAEYONG, KW_INJAE, KW_INSA, KW_INJAESANG, KW_INJAEGWAN>>

\* the keyword list of _format_search_results_as_talent_profile (the fallback)
talent_keywords_fallback ==
    <<KW_INJAESANG, KW_CHAEYONG, KW_INJAE, KW_INSA, KW_INJAEGWAN>>

vision_keywords ==
    <<(<<"bi", "jeon">>), (<<"jeon", "ryak">>), (<<"mok", "pyo">>),
      (<<"bang", "hyang">>), (<<"mi", "rae">>)>>

Raised == [raised |-> TRUE]
Returned(v) == [raised |-> FALSE, value |-> v]

\* r.get("title", "").lower() + r.get("snippet", "").lower() raises
lower_raises(r) == Get(r, "title", <<>>) = None \/ Get(r, "snippet", <<>>) = None

\* mutant: the keywords are looked up in the title alone
matches_any_title_only(r, keywords) ==
    LET text == Lower(Get(r, "title", <<>>))
    IN  \E k \in 1..Len(keywords) : Contains(text, keywords[k])

\* any(keyword in title.lower() + snippet.lower() for keyword in keywords)
matches_any(r, keywords) ==
    LET text == Lower(Get(r, "title", <<>>)) \o Lower(Get(r, "snippet", <<>>))
    IN  \E k \in 1..Len(keywords) : Contains(text, keywords[k])

\* [r for r in search_results if any(keyword in ... for keyword in keywords)]
keyword_filter(results, keywords) ==
    IF \E i \in 1..Len(results) : lower_raises(results[i]) THEN Raised
    ELSE Returned(SelectSeq(results, LAMBDA r : matches_any(r, keywords)))

\* mutant: only a date makes a result news, the title markers are not tested
is_news_result_date_only(r) == Truthy(GetOrNone(r, "date"))

\* r.get("date") or "뉴스" in title.lower() or "기사" in title.lower()
is_news_result(r) ==
    \/ Truthy(GetOrNone(r, "date"))
    \/ Contains(Lower(Get(r, "title", <<>>)), KW_NEWS)
    \/ Contains(Lower(Get(r, "title", <<>>)), KW_GISA)

\* mutant: a result counts as news as soon as it has a date key
news_filter_date_key(results) ==
    IF \E i \in 1..Len(results) :
          /\ "date" \notin DOMAIN results[i]
          /\ Get(results[i], "title", <<>>) = None
    THEN Raised
    ELSE Returned(SelectSeq(results,
                    LAMBDA r : "date" \in DOMAIN r \/ is_news_result(r)))

\* the news comprehension: the title is lower-cased only when the date is falsy
news_filter(results) ==
    IF \E i \in 1..Len(results) :
          /\ ~Truthy(GetOrNone(results[i], "date"))
          /\ Get(results[i], "title", <<>>) = None
    THEN Raised
    ELSE Returned(SelectSeq(results, is_news_result))

---------------------------------------------------------------------------
(* Homepage content: its length in characters and the keywords occurring   *)
(* in it.  NoContent is the None that _fetch_website_content returns.      *)

SITE_BUDGET == 5000
PREVIEW_CHARS == 2000
PROMPT_SITE_CHARS == 2000
TALENT_SITE_CHARS == 1500

NoContent == [len |-> -1, kw |-> {}]

\* bool(website_content)
HasContent(site) == site.len > 0

\* "인재상" in website_content or "채용" in website_content
site_mentions_talent(site) == KW_INJAESANG \in site.kw \/ KW_CHAEYONG \in site.kw

\* the visible text of the pages a company URL can serve
SitePages ==
    { [len |-> 0, kw |-> {}],
      [len |-> 1200, kw |-> {}],
      [len |-> 2500, kw |-> {KW_CHAEYONG}],
      [len |-> 6000, kw |-> {KW_INJAESANG, KW_INJAE}] }

\* _fetch_website_content: text[:5000], None on any failure
fetch_website_content(outcome, pagetext) ==
    IF outcome = "ok"
    THEN [len |-> Min(pagetext.len, SITE_BUDGET), kw |-> pagetext.kw]
    ELSE NoContent

---------------------------------------------------------------------------
(* Fallback variant: the text of a section is the sequence of its lines    *)
(* (blank separator lines left out).                                       *)

DATE_UNKNOWN == <<"nal", "jja", "mi", "sang">>

Fallback(lines) == [variant |-> "fallback", lines |-> lines]

\* the numbered title line of one result and its optional snippet / link lines
entry_lines(result, i, dated) ==
    LET title == Str(Get(result, "title", <<>>))
        snippet == Get(result, "snippet", <<>>)
        link == Get(result, "link", <<>>)
        first == IF dated
                 THEN [k |-> "entry", n |-> i, title |-> title,
                       date |-> Str(Get(result, "date", DATE_UNKNOWN))]
                 ELSE [k |-> "entry", n |-> i, title |-> title]
    IN  <<first>>
        \o (IF Truthy(snippet) THEN <<[k |-> "snippet", text |-> snippet]>> ELSE <<>>)
        \o (IF Truthy(link) THEN <<[k |-> "link", text |-> link]>> ELSE <<>>)

\* for i, result in enumerate(results, 1): ...
RECURSIVE render_entries(_, _, _)
render_entries(results, i, dated) ==
    IF i > Len(results) THEN <<>>
    ELSE entry_lines(results[i], i, dated) \o render_entries(results, i + 1, dated)

Header(section, name) == [k |-> "header", section |-> section, name |-> name]

\* _format_search_results_as_overview
format_search_results_as_overview(name, results, site) ==
    IF results = <<>> /\ ~HasContent(site)
    THEN Returned(Fallback(<<Header("overview", name), [k |-> "no_results"]>>))
    ELSE Returned(Fallback(
           <<Header("overview", name)>>
           \o (IF results # <<>>
               THEN <<[k |-> "results_title"]>> \o render_entries(Take(results, 5), 1, FALSE)
               ELSE <<>>)
           \o (IF HasContent(site)
               THEN <<[k |-> "site_preview",
                       chars |-> Min(site.len, PREVIEW_CHARS),
                       ellipsis |-> site.len > PREVIEW_CHARS]>>
               ELSE <<>>)))

\* mutant: the closing hint depends on the search results alone
format_search_results_as_talent_profile_hint_on_results(name, results, site) ==
    LET f == keyword_filter(results, talent_keywords_fallback)
        site_talent == HasContent(site) /\ site_mentions_talent(site)
    IN  IF f.raised THEN Raised
        ELSE Returned(Fallback(
               <<Header("talent_profile", name)>>
               \o (IF f.value # <<>>
                   THEN <<[k |-> "talent_title"]>>
                        \o render_entries(Take(f.value, 5), 1, FALSE)
                   ELSE <<[k |-> "talent_not_found"]>>)
               \o (IF site_talent THEN <<[k |-> "site_talent"]>> ELSE <<>>)
               \o (IF f.value = <<>> THEN <<[k |-> "hint"]>> ELSE <<>>)))

\* _format_search_results_as_talent_profile
format_search_results_as_talent_profile(name, results, site) ==
    LET f == keyword_filter(results, talent_keywords_fallback)
        site_talent == HasContent(site) /\ site_mentions_talent(site)
    IN  IF f.raised THEN Raised
        ELSE Returned(Fallback(
               <<Header("talent_profile", name)>>
               \o (IF f.value # <<>>
                   THEN <<[k |-> "talent_title"]>>
                        \o render_entries(Take(f.value, 5), 1, FALSE)
                   ELSE <<[k |-> "talent_not_found"]>>)
               \o (IF site_talent THEN <<[k |-> "site_talent"]>> ELSE <<>>)
               \o (IF f.value = <<>> /\ ~site_talent THEN <<[k |-> "hint"]>> ELSE <<>>)))

\* _format_search_results_as_vision
format_search_results_as_vision(name, results) ==
    LET news == news_filter(results)
        vision == keyword_filter(results, vision_keywords)
    IN  IF news.raised THEN Raised
        ELSE IF news.value # <<>>
        THEN Returned(Fallback(
               <<Header("recent_vision", name), [k |-> "news_title"]>>
               \o render_entries(Take(news.value, 5), 1, TRUE)))
        ELSE IF vision.raised THEN Raised
        ELSE IF vision.value # <<>>
        THEN Returned(Fallback(
               <<Header("recent_vision", name), [k |-> "vision_title"]>>
               \o render_entries(Take(vision.value, 5), 1, FALSE)))
        ELSE Returned(Fallback(
               <<Header("recent_vision", name), [k |-> "vision_not_found"]>>
               \o (IF results # <<>>
                   THEN <<[k |-> "general_title"]>>
                        \o render_entries(Take(results, 3), 1, FALSE)
                   ELSE <<>>)))

---------------------------------------------------------------------------
(* Model variant: the prompt of a section and the outcome of the call *)

ERR_NONE_STRIP == <<"'NoneType' object has no attribute 'strip'">>

ErrorTexts ==
    { <<"Error code: ", "429">>, <<"insufficient_quota">>,
      <<"Error code: ", "401">>, <<"invalid_api_key">>,
      <<"Error code: ", "401", " - ", "insufficient_quota">>,
      <<"invalid_api_key", " after ", "429">>,
      <<"Connection error.">> }

Succeeds(content) == [ok |-> TRUE, content |-> content]
Fails(error) == [ok |-> FALSE, error |-> error]

\* what client.chat.completions.create can do
AllModelOutcomes ==
    {Succeeds(<<" ", "summary", " ">>), Succeeds(None)}
    \cup {Fails(e) : e \in ErrorTexts}

\* str.strip()
RECURSIVE Strip(_)
Strip(s) ==
    IF s = <<>> THEN s
    ELSE IF Head(s) = " " THEN Strip(Tail(s))
    ELSE IF s[Len(s)] = " " THEN Strip(SubSeq(s, 1, Len(s) - 1))
    ELSE s

Diagnostic(category, section, raw) ==
    [variant |-> "diagnostic", category |-> category, section |-> section,
     raw |-> raw]

\* mutant: the auth markers are tested before the quota markers
format_openai_error_auth_first(error_str, section_name) ==
    IF Contains(error_str, <<"invalid_api_key">>) \/ Contains(error_str, <<"401">>)
    THEN Diagnostic("auth_invalid", section_name, <<>>)
    ELSE IF Contains(error_str, <<"insufficient_quota">>) \/ Contains(error_str, <<"429">>)
    THEN Diagnostic("quota_exceeded", section_name, <<>>)
    ELSE Diagnostic("other", section_name, error_str)

\* _format_openai_error: the message chosen for str(error)
format_openai_error(error_str, section_name) ==
    IF Contains(error_str, <<"insufficient_quota">>) \/ Contains(error_str, <<"429">>)
    THEN Diagnostic("quota_exceeded", section_name, <<>>)
    ELSE IF Contains(error_str, <<"invalid_api_key">>) \/ Contains(error_str, <<"401">>)
    THEN Diagnostic("auth_invalid", section_name, <<>>)
    ELSE Diagnostic("other", section_name, error_str)

\* the try block around the model call of each _generate_* function
model_call(outcome, section_name) ==
    IF ~outcome.ok THEN format_openai_error(outcome.error, section_name)
    ELSE IF outcome.content = None
    THEN format_openai_error(ERR_NONE_STRIP, section_name)
    ELSE [variant |-> "model", text |-> Strip(outcome.content)]

Prompt(section, name, heading, items, site_chars) ==
    [kind |-> "MODEL", section |-> section, name |-> name, heading |-> heading,
     items |-> items, site_chars |-> site_chars]

\* "- title: snippet" / "i. title\n snippet" of the results embedded in a prompt
prompt_items(results, dated) ==
    [i \in 1..Len(results) |->
        IF dated
        THEN [title |-> Str(Get(results[i], "title", <<>>)),
              snippet |-> Str(Get(results[i], "snippet", <<>>)),
              date |-> Str(Get(results[i], "date", DATE_UNKNOWN))]
        ELSE [title |-> Str(Get(results[i], "title", <<>>)),
              snippet |-> Str(Get(results[i], "snippet", <<>>))]]

\* the context of _generate_overview
overview_prompt(name, results, site) ==
    Returned(Prompt("overview", name, "results",
                    prompt_items(Take(results, 5), FALSE),
                    IF HasContent(site) THEN Min(site.len, PROMPT_SITE_CHARS) ELSE 0))

\* the context of _generate_talent_profile
talent_prompt(name, results, site) ==
    LET f == keyword_filter(results, talent_keywords_model)
    IN  IF f.raised THEN Raised
        ELSE Returned(Prompt("talent_profile", name, "talent",
                             prompt_items(Take(f.value, 3), FALSE),
                             IF HasContent(site) /\ site_mentions_talent(site)
                             THEN Min(site.len, TALENT_SITE_CHARS) ELSE 0))

\* mutant: the vision-keyword results are cut to five like the news results
vision_prompt_top5(name, results) ==
    LET news == news_filter(results)
        vision == keyword_filter(results, vision_keywords)
    IN  IF news.raised THEN Raised
        ELSE IF news.value # <<>>
        THEN Returned(Prompt("recent_vision", name, "news",
                             prompt_items(Take(news.value, 5), TRUE), 0))
        ELSE IF vision.raised THEN Raised
        ELSE Returned(Prompt("recent_vision", name, "vision",
                             prompt_items(Take(vision.value, 5), FALSE), 0))

\* the context of _generate_recent_vision
vision_prompt(name, results) ==
    LET news == news_filter(results)
        vision == keyword_filter(results, vision_keywords)
    IN  IF news.raised THEN Raised
        ELSE IF news.value # <<>>
        THEN Returned(Prompt("recent_vision", name, "news",
                             prompt_items(Take(news.value, 5), TRUE), 0))
        ELSE IF vision.raised THEN Raised
        ELSE Returned(Prompt("recent_vision", name, "vision",
                             prompt_items(Take(vision.value, 3), FALSE), 0))

---------------------------------------------------------------------------
(* Outbound calls, as logged *)

\* the text the two queries append to the company name
QUERY_GENERAL == <<" ", "hoesa sogae injaesang">>
QUERY_NEWS == <<" ", "choegeun nyuseu bijeon jeollyak">>

\* the literal the scrape URL is built from (summarizer.py line 219)
DDG_FIXED_Q == <<"mi", "rae", "si", "seu", "tem">>

\* the q parameter of the URL requested for a query: encoded_query is computed
\* but the f-string of the URL does not use it
ddg_url_q(query) == DDG_FIXED_Q

GetDDG(query) ==
    [kind |-> "GET", host |-> "duckduckgo.com/html", q |-> ddg_url_q(query)]
HeadDDG == [kind |-> "HEAD", host |-> "duckduckgo.com/l"]

\* n copies of x
Repeat(x, n) == [i \in 1..n |-> x]

FetchOutcomes == {"ok", "non200", "error"}

---------------------------------------------------------------------------
(* The widgets of the desktop front-end after _create_widgets *)

empty_texts == [overview |-> <<>>, talent_profile |-> <<>>, recent_vision |-> <<>>]

gui_widgets(summarizer, name) ==
    [summarizer |-> summarizer,     \* self.summarizer is not None
     name_entry |-> name,           \* company_name_entry
     button |-> "normal",           \* analyze_button state
     progress |-> FALSE,            \* the progress bar is running
     status |-> "idle",             \* status_label
     texts |-> empty_texts,         \* the three result tabs
     dialog |-> "none",             \* the message box that is open
     workers |-> <<>>,              \* the threads started, by number
     after_queue |-> <<>>]          \* callbacks scheduled with root.after

\* no front-end: the pipeline is run by main() or called directly
gui_idle == gui_widgets(FALSE, <<>>)

---------------------------------------------------------------------------
(* The extractor called on its own: _search_duckduckgo_html(query, m, news) *)

Unset == [variant |-> "unset"]

no_out == [overview |-> Unset, talent_profile |-> Unset, recent_vision |-> Unset]

pipeline_idle ==
    /\ via = "extractor" /\ env = {} /\ client = FALSE
    /\ company_name = <<>> /\ company_url = None
    /\ search_results = <<>> /\ website_content = NoContent
    /\ out = no_out

no_ext == [outcome |-> "none", results |-> <<>>, heads |-> 0, examined |-> 0]

\* the two ways _search_company_info calls the extractor
ExtractorArgs ==
    { [query |-> TXT_PLAIN \o QUERY_GENERAL, max_results |-> 5, is_news |-> FALSE],
      [query |-> TXT_PLAIN \o QUERY_NEWS, max_results |-> 3, is_news |-> TRUE] }

InitExtract ==
    /\ pipeline_idle
    /\ pc = "ext_call"
    /\ log = <<>>
    /\ page \in Docs
    /\ args \in ExtractorArgs
    /\ ext = no_ext
    /\ served = <<>>
    /\ gui = gui_idle

\* requests.get(url, headers, timeout=10); response.raise_for_status()
ExtFetch ==
    /\ pc = "ext_call"
    /\ \E outcome \in FetchOutcomes :
         /\ ext' = [ext EXCEPT !.outcome = outcome]
         /\ pc' = IF outcome = "ok" THEN "ext_parse" ELSE "ext_done"
    /\ log' = Append(log, GetDDG(args.query))
    /\ UNCHANGED <<gui, via, env, client, company_name, company_url, search_results,
                   website_content, out, page, args, served>>

\* BeautifulSoup(...), the selector strategies and the loop over the candidates
ExtParse ==
    /\ pc = "ext_parse"
    /\ LET r == extract(page, args.max_results, args.is_news)
       IN  /\ ext' = [outcome |-> ext.outcome, results |-> r.results,
                      heads |-> r.heads, examined |-> r.examined]
           /\ log' = log \o Repeat(HeadDDG, r.heads)
    /\ pc' = "ext_done"
    /\ UNCHANGED <<gui, via, env, client, company_name, company_url, search_results,
                   website_content, out, page, args, served>>

NextExtract == ExtFetch \/ ExtParse

SpecExtract == InitExtract /\ [][NextExtract]_vars

---------------------------------------------------------------------------
(* _search_company_info: the Search Aggregator *)

\* one answer of a service, as the code received it
Answer(call, outcome, data) == [call |-> call, outcome |-> outcome, data |-> data]

GetSerp(q, tbm) == [kind |-> "GET", host |-> "serpapi.com/search", q |-> q, tbm |-> tbm]

\* the entries the paid API can return for the general query
OrganicItems ==
    { [title |-> TXT_TALENT, snippet |-> TXT_PLAIN, link |-> HREF_ABSOLUTE],
      [title |-> None, snippet |-> TXT_PLAIN, link |-> HREF_ABSOLUTE],
      [snippet |-> TXT_NEWS] }

\* the entries the paid API can return for the news query
NewsItems ==
    { [title |-> TXT_PLAIN, snippet |-> TXT_PLAIN, link |-> HREF_ABSOLUTE,
       date |-> TXT_DATE],
      [title |-> TXT_NEWS, link |-> HREF_ABSOLUTE],
      [title |-> TXT_PLAIN, snippet |-> None, date |-> <<>>] }

\* response.json() of a 200 answer: the key may be missing
NoResultsKey == [search_metadata |-> <<>>]

Payloads(key, items, n) ==
    {NoResultsKey} \cup { [k \in {key} |-> list] : list \in SeqsUpTo(items, n) }

\* the loop over data[key][:cap] of one query of the paid API
serp_results(outcome, data, key, cap, with_date) ==
    IF outcome # "ok" \/ key \notin DOMAIN data THEN <<>>
    ELSE LET items == Take(data[key], cap)
         IN  [i \in 1..Len(items) |->
                IF with_date
                THEN [title |-> Get(items[i], "title", <<>>),
                      snippet |-> Get(items[i], "snippet", <<>>),
                      link |-> Get(items[i], "link", <<>>),
                      date |-> Get(items[i], "date", <<>>)]
                ELSE [title |-> Get(items[i], "title", <<>>),
                      snippet |-> Get(items[i], "snippet", <<>>),
                      link |-> Get(items[i], "link", <<>>)]]

\* the blocks of the pages served to a pipeline run
PipelineBlocks ==
    { Div(CLS_RESULT, Anchor(TXT_PLAIN, HREF_ABSOLUTE)),
      Div(CLS_RESULT, Anchor(TXT_NEWS, HREF_RELATIVE)),
      Div(CLS_RESULT, Anchor(<<>>, HREF_ABSOLUTE)),
      [cls |-> {CLS_RESULT}, title_elem |-> Anchor(TXT_TALENT, HREF_WRAPPED),
       snippet |-> TXT_PLAIN, date |-> TXT_DATE, head |-> "error",
       raises |-> FALSE] }

\* the outcomes of a model call inside a pipeline run
PipelineModelOutcomes ==
    {Succeeds(<<" ", "summary", " ">>), Fails(<<"Error code: ", "429">>)}

ModelOutcomes(v) == IF v = "sections" THEN AllModelOutcomes ELSE PipelineModelOutcomes

\* the entries the paid API serves to the aggregator called on its own
SearchItems ==
    { [title |-> TXT_PLAIN, snippet |-> TXT_PLAIN, link |-> HREF_ABSOLUTE],
      [title |-> TXT_NEWS, link |-> HREF_ABSOLUTE, date |-> TXT_DATE] }

\* the blocks of the pages served to the aggregator called on its own
SearchBlocks ==
    { Div(CLS_RESULT, Anchor(TXT_PLAIN, HREF_ABSOLUTE)),
      [cls |-> {CLS_RESULT}, title_elem |-> Anchor(TXT_NEWS, HREF_ABSOLUTE),
       date |-> TXT_DATE, head |-> "ok", raises |-> FALSE] }

\* the answers to the general query and to the news query, by caller
GeneralPayloads(v) ==
    IF v = "search" THEN Payloads("organic_results", SearchItems, MaxHits)
    ELSE Payloads("organic_results", OrganicItems, MaxPayload)

NewsPayloads(v) ==
    IF v = "search" THEN Payloads("news_results", SearchItems, MaxHits - 2)
    ELSE Payloads("news_results", NewsItems, MaxPayload - 1)

GeneralPages(v) ==
    IF v = "search" THEN SeqsUpTo(SearchBlocks, MaxHits)
    ELSE SeqsUpTo(PipelineBlocks, MaxPayload)

NewsPages(v) ==
    IF v = "search" THEN SeqsUpTo(SearchBlocks, MaxHits - 2)
    ELSE SeqsUpTo(PipelineBlocks, MaxPayload - 1)

PipelineSitePages == { pg \in SitePages : pg.len > SITE_BUDGET }

URL_COMPANY == <<"http", "s://acme.example">>

---------------------------------------------------------------------------
(* One request: main() of the CLI, or a direct call of summarize_company *)

Env == SUBSET {"OPENAI_API_KEY", "SERPAPI_KEY"}

Init ==
    /\ pc = "start"
    /\ via \in {"main", "direct"}
    /\ env \in Env
    /\ client = FALSE
    /\ company_name \in {<<>>, TXT_PLAIN} \cup (IF via = "main" THEN {<<" ">>} ELSE {})
    /\ company_url \in {None, URL_COMPANY}
    /\ search_results = <<>>
    /\ website_content = NoContent
    /\ out = no_out
    /\ log = <<>>
    /\ page = <<>>
    /\ args = [max_results |-> 5, is_news |-> FALSE]
    /\ ext = no_ext
    /\ served = <<>>
    /\ gui = gui_idle

\* mutant: main() does not test the name it read
MainStart_unchecked ==
    /\ pc = "start" /\ via = "main"
    /\ company_name' = Strip(company_name)
    /\ company_url' = IF company_url = None \/ Strip(company_url) = <<>>
                      THEN None ELSE Strip(company_url)
    /\ pc' = "construct"
    /\ UNCHANGED <<gui, via, env, client, search_results, website_content, out, log,
                   page, args, ext, served>>

\* main(): prompt_user_inputs strips both inputs; an empty name ends the program
MainStart ==
    /\ pc = "start" /\ via = "main"
    /\ company_name' = Strip(company_name)
    /\ company_url' = IF company_url = None \/ Strip(company_url) = <<>>
                      THEN None ELSE Strip(company_url)
    /\ pc' = IF Strip(company_name) = <<>> THEN "rejected" ELSE "construct"
    /\ UNCHANGED <<gui, via, env, client, search_results, website_content, out, log,
                   page, args, ext, served>>

\* a caller other than main(): the arguments are passed as they are
DirectStart ==
    /\ pc = "start" /\ via = "direct"
    /\ pc' = "construct"
    /\ UNCHANGED <<gui, via, env, client, company_name, company_url, search_results,
                   website_content, out, log, page, args, ext, served>>

\* mutant: the client is built whether or not the key is set
Construct_unconditional ==
    /\ pc = "construct"
    /\ \E built \in BOOLEAN : client' = built
    /\ pc' = "search_general"
    /\ UNCHANGED <<gui, via, env, company_name, company_url, search_results,
                   website_content, out, log, page, args, ext, served>>

\* CompanySummarizer.__init__: the client exists if the key is set and
\* OpenAI(api_key=...) did not raise
Construct ==
    /\ pc = "construct"
    /\ \E built \in BOOLEAN :
         client' = ("OPENAI_API_KEY" \in env /\ built)
    /\ pc' = "search_general"
    /\ UNCHANGED <<gui, via, env, company_name, company_url, search_results,
                   website_content, out, log, page, args, ext, served>>

\* return results; summarize_company then fetches the homepage if a URL is given
AfterSearch ==
    IF via = "search" THEN "searched"
    ELSE IF Truthy(company_url) THEN "fetch_site" ELSE "overview"

\* the general query against the paid API (summarizer.py 108-140)
SerpGeneral ==
    /\ pc = "search_general" /\ "SERPAPI_KEY" \in env
    /\ \E outcome \in FetchOutcomes,
          data \in GeneralPayloads(via) :
         /\ outcome # "ok" => data = NoResultsKey
         /\ search_results' = search_results
                \o serp_results(outcome, data, "organic_results", 5, FALSE)
         /\ served' = Append(served, Answer("general", outcome, data))
    /\ log' = Append(log, GetSerp(company_name \o QUERY_GENERAL, "web"))
    /\ pc' = "search_news"
    /\ UNCHANGED <<gui, via, env, client, company_name, company_url, website_content,
                   out, page, args, ext>>

\* mutant: both queries share one try block, a failed general query ends it
SerpNews_shared_try ==
    /\ pc = "search_news" /\ "SERPAPI_KEY" \in env
    /\ \E outcome \in FetchOutcomes,
          data \in NewsPayloads(via) :
         /\ outcome # "ok" => data = NoResultsKey
         /\ search_results' =
               IF served[1].outcome = "ok"
               THEN search_results
                    \o serp_results(outcome, data, "news_results", 3, TRUE)
               ELSE search_results
         /\ served' = Append(served, Answer("news", outcome, data))
    /\ log' = Append(log, GetSerp(company_name \o QUERY_NEWS, "nws"))
    /\ pc' = AfterSearch
    /\ UNCHANGED <<gui, via, env, client, company_name, company_url, website_content,
                   out, page, args, ext>>

\* the news query against the paid API (summarizer.py 143-175)
SerpNews ==
    /\ pc = "search_news" /\ "SERPAPI_KEY" \in env
    /\ \E outcome \in FetchOutcomes,
          data \in NewsPayloads(via) :
         /\ outcome # "ok" => data = NoResultsKey
         /\ search_results' = search_results
                \o serp_results(outcome, data, "news_results", 3, TRUE)
         /\ served' = Append(served, Answer("news", outcome, data))
    /\ log' = Append(log, GetSerp(company_name \o QUERY_NEWS, "nws"))
    /\ pc' = AfterSearch
    /\ UNCHANGED <<gui, via, env, client, company_name, company_url, website_content,
                   out, page, args, ext>>

\* the general query scraped from the search engine (summarizer.py 178-187)
DdgGeneral ==
    /\ pc = "search_general" /\ "SERPAPI_KEY" \notin env
    /\ \E outcome \in FetchOutcomes, doc \in GeneralPages(via) :
         /\ outcome # "ok" => doc = <<>>
         /\ LET r == search_duckduckgo_html(outcome, doc, 5, FALSE)
            IN  /\ search_results' = search_results \o r.results
                /\ log' = Append(log, GetDDG(company_name \o QUERY_GENERAL))
                           \o Repeat(HeadDDG, r.heads)
                /\ served' = Append(served, Answer("general", outcome, doc))
    /\ pc' = "search_news"
    /\ UNCHANGED <<gui, via, env, client, company_name, company_url, website_content,
                   out, page, args, ext>>

\* mutant: a news result equal to one already collected is not appended
DdgNews_dedup ==
    /\ pc = "search_news" /\ "SERPAPI_KEY" \notin env
    /\ \E outcome \in FetchOutcomes, doc \in NewsPages(via) :
         /\ outcome # "ok" => doc = <<>>
         /\ LET r == search_duckduckgo_html(outcome, doc, 3, TRUE)
                fresh == SelectSeq(r.results,
                            LAMBDA x : \A i \in 1..Len(search_results) :
                                          search_results[i].title # x.title)
            IN  /\ search_results' = search_results \o fresh
                /\ log' = Append(log, GetDDG(company_name \o QUERY_NEWS))
                           \o Repeat(HeadDDG, r.heads)
                /\ served' = Append(served, Answer("news", outcome, doc))
    /\ pc' = AfterSearch
    /\ UNCHANGED <<gui, via, env, client, company_name, company_url, website_content,
                   out, page, args, ext>>

\* the news query scraped from the search engine (summarizer.py 190-200)
DdgNews ==
    /\ pc = "search_news" /\ "SERPAPI_KEY" \notin env
    /\ \E outcome \in FetchOutcomes, doc \in NewsPages(via) :
         /\ outcome # "ok" => doc = <<>>
         /\ LET r == search_duckduckgo_html(outcome, doc, 3, TRUE)
            IN  /\ search_results' = search_results \o r.results
                /\ log' = Append(log, GetDDG(company_name \o QUERY_NEWS))
                           \o Repeat(HeadDDG, r.heads)
                /\ served' = Append(served, Answer("news", outcome, doc))
    /\ pc' = AfterSearch
    /\ UNCHANGED <<gui, via, env, client, company_name, company_url, website_content,
                   out, page, args, ext>>

\* website_content = self._fetch_website_content(company_url)
FetchSite ==
    /\ pc = "fetch_site"
    /\ \E outcome \in FetchOutcomes, pagetext \in PipelineSitePages :
         website_content' = fetch_website_content(outcome, pagetext)
    /\ log' = Append(log, [kind |-> "GET", host |-> company_url])
    /\ pc' = "overview"
    /\ UNCHANGED <<gui, via, env, client, company_name, company_url, search_results,
                   out, page, args, ext, served>>

---------------------------------------------------------------------------
(* The three sections, one after another; called on their own (via =       *)
(* "sections") each returns to its caller.                                 *)

AfterSection(next) == IF via = "sections" THEN "returned" ELSE next

GenerateOverview ==
    /\ pc = "overview" /\ client
    /\ \E outcome \in ModelOutcomes(via) :
         /\ out' = [out EXCEPT !.overview = model_call(outcome, "overview")]
         /\ served' = Append(served, [call |-> "overview", outcome |-> outcome])
    /\ log' = Append(log, overview_prompt(company_name, search_results,
                                          website_content).value)
    /\ pc' = AfterSection("talent")
    /\ UNCHANGED <<gui, via, env, client, company_name, company_url, search_results,
                   website_content, page, args, ext>>

FormatOverview ==
    /\ pc = "overview" /\ ~client
    /\ out' = [out EXCEPT !.overview =
                 format_search_results_as_overview(
                     company_name, search_results, website_content).value]
    /\ pc' = AfterSection("talent")
    /\ UNCHANGED <<gui, via, env, client, company_name, company_url, search_results,
                   website_content, log, page, args, ext, served>>

GenerateTalent ==
    /\ pc = "talent" /\ client
    /\ LET p == talent_prompt(company_name, search_results, website_content)
       IN  \/ /\ p.raised
              /\ pc' = "raised"
              /\ UNCHANGED <<out, log, served>>
           \/ /\ ~p.raised
              /\ \E outcome \in ModelOutcomes(via) :
                   /\ out' = [out EXCEPT !.talent_profile =
                                model_call(outcome, "talent_profile")]
                   /\ served' = Append(served, [call |-> "talent_profile",
                                                outcome |-> outcome])
              /\ log' = Append(log, p.value)
              /\ pc' = AfterSection("vision")
    /\ UNCHANGED <<gui, via, env, client, company_name, company_url, search_results,
                   website_content, page, args, ext>>

FormatTalent ==
    /\ pc = "talent" /\ ~client
    /\ LET f == format_search_results_as_talent_profile(
                    company_name, search_results, website_content)
       IN  \/ /\ f.raised
              /\ pc' = "raised"
              /\ UNCHANGED out
           \/ /\ ~f.raised
              /\ out' = [out EXCEPT !.talent_profile = f.value]
              /\ pc' = AfterSection("vision")
    /\ UNCHANGED <<gui, via, env, client, company_name, company_url, search_results,
                   website_content, log, page, args, ext, served>>

GenerateVision ==
    /\ pc = "vision" /\ client
    /\ LET p == vision_prompt(company_name, search_results)
       IN  \/ /\ p.raised
              /\ pc' = "raised"
              /\ UNCHANGED <<out, log, served>>
           \/ /\ ~p.raised
              /\ \E outcome \in ModelOutcomes(via) :
                   /\ out' = [out EXCEPT !.recent_vision =
                                model_call(outcome, "recent_vision")]
                   /\ served' = Append(served, [call |-> "recent_vision",
                                                outcome |-> outcome])
              /\ log' = Append(log, p.value)
              /\ pc' = AfterSection("done")
    /\ UNCHANGED <<gui, via, env, client, company_name, company_url, search_results,
                   website_content, page, args, ext>>

FormatVision ==
    /\ pc = "vision" /\ ~client
    /\ LET f == format_search_results_as_vision(company_name, search_results)
       IN  \/ /\ f.raised
              /\ pc' = "raised"
              /\ UNCHANGED out
           \/ /\ ~f.raised
              /\ out' = [out EXCEPT !.recent_vision = f.value]
              /\ pc' = AfterSection("done")
    /\ UNCHANGED <<gui, via, env, client, company_name, company_url, search_results,
                   website_content, log, page, args, ext, served>>

Sections ==
    \/ GenerateOverview \/ FormatOverview
    \/ GenerateTalent \/ FormatTalent
    \/ GenerateVision \/ FormatVision

Next ==
    \/ MainStart \/ DirectStart \/ Construct
    \/ SerpGeneral \/ SerpNews \/ DdgGeneral \/ DdgNews
    \/ FetchSite
    \/ Sections

Spec == Init /\ [][Next]_vars

---------------------------------------------------------------------------
(* _search_company_info called on its own *)

InitSearch ==
    /\ pc = "search_general"
    /\ via = "search"
    /\ env \in SUBSET {"SERPAPI_KEY"}
    /\ client = FALSE
    /\ company_name = TXT_PLAIN
    /\ company_url = None
    /\ search_results = <<>>
    /\ website_content = NoContent
    /\ out = no_out
    /\ log = <<>>
    /\ page = <<>>
    /\ args = [max_results |-> 5, is_news |-> FALSE]
    /\ ext = no_ext
    /\ served = <<>>
    /\ gui = gui_idle

NextSearch == SerpGeneral \/ SerpNews \/ DdgGeneral \/ DdgNews

SpecSearch == InitSearch /\ [][NextSearch]_vars

---------------------------------------------------------------------------
(* The section functions called on their own with a ResultSet *)

\* results as _search_company_info builds them: general entries carry no date
SectionResults ==
    { [title |-> TXT_TALENT, snippet |-> <<>>, link |-> HREF_ABSOLUTE],
      [title |-> <<"in">>, snippet |-> <<"jae">>, link |-> <<>>],
      [title |-> TXT_PLAIN, snippet |-> TXT_PLAIN, link |-> HREF_ABSOLUTE],
      [title |-> <<"bi", "jeon">>, snippet |-> <<>>, link |-> <<>>],
      [title |-> None, snippet |-> <<>>, link |-> <<>>],
      [title |-> TXT_NEWS, snippet |-> <<>>, link |-> <<>>, date |-> <<>>],
      [title |-> TXT_PLAIN, snippet |-> <<>>, link |-> <<"/l/?", "x">>,
       date |-> TXT_DATE],
      [title |-> TXT_PLAIN, snippet |-> None, link |-> <<>>, date |-> TXT_DATE] }

InitSections ==
    /\ pc \in {"overview", "talent", "vision"}
    /\ via = "sections"
    /\ client \in BOOLEAN
    /\ env = IF client THEN {"OPENAI_API_KEY"} ELSE {}
    /\ company_name = TXT_PLAIN
    /\ company_url = None
    /\ search_results \in SeqsUpTo(SectionResults, MaxResults)
    /\ website_content \in
          {NoContent} \cup {fetch_website_content("ok", pg) : pg \in SitePages}
    /\ out = no_out
    /\ log = <<>>
    /\ page = <<>>
    /\ args = [max_results |-> 5, is_news |-> FALSE]
    /\ ext = no_ext
    /\ served = <<>>
    /\ gui = gui_idle

SpecSections == InitSections /\ [][Sections]_vars

---------------------------------------------------------------------------
(* The model variant of the section functions called on their own with a   *)
(* long ResultSet                                                          *)

\* a result with a talent and a vision keyword, a dated one, a plain one
PromptResults ==
    { [title |-> TXT_TALENT, snippet |-> <<"bi", "jeon">>, link |-> HREF_ABSOLUTE],
      [title |-> TXT_NEWS, snippet |-> <<>>, link |-> <<>>, date |-> TXT_DATE],
      [title |-> TXT_PLAIN, snippet |-> TXT_PLAIN, link |-> HREF_ABSOLUTE] }

InitPrompts ==
    /\ pc \in {"overview", "talent", "vision"}
    /\ via = "sections"
    /\ client = TRUE
    /\ env = {"OPENAI_API_KEY"}
    /\ company_name = TXT_PLAIN
    /\ company_url = None
    /\ search_results \in SeqsUpTo(PromptResults, MaxHits)
    /\ website_content \in
          {NoContent} \cup {fetch_website_content("ok", pg) :
                               pg \in {q \in SitePages : q.len > PROMPT_SITE_CHARS}}
    /\ out = no_out
    /\ log = <<>>
    /\ page = <<>>
    /\ args = [max_results |-> 5, is_news |-> FALSE]
    /\ ext = no_ext
    /\ served = <<>>
    /\ gui = gui_idle

NextPrompts == GenerateOverview \/ GenerateTalent \/ GenerateVision

SpecPrompts == InitPrompts /\ [][NextPrompts]_vars

---------------------------------------------------------------------------
(* The desktop front-end (gui.py): the main loop handles clicks, edits and  *)
(* the callbacks scheduled with root.after; each analysis runs in a thread *)

\* what the user can have typed into the company name entry
NameEntries == {<<>>, <<" ">>, TXT_PLAIN}

\* what summarize_company can hand back to the worker: to_dict() of the three
\* sections (a section can be an empty text), or an exception
GuiResults ==
    { [overview |-> TXT_PLAIN, talent_profile |-> TXT_TALENT,
       recent_vision |-> TXT_NEWS],
      [overview |-> <<>>, talent_profile |-> TXT_TALENT,
       recent_vision |-> TXT_NEWS] }

WorkerOutcomes == {Returned(r) : r \in GuiResults} \cup {Raised}

InitGui ==
    /\ pc = "mainloop"
    /\ via = "gui"
    /\ env \in Env
    /\ client = FALSE
    /\ company_name = <<>>
    /\ company_url = None
    /\ search_results = <<>>
    /\ website_content = NoContent
    /\ out = no_out
    /\ log = <<>>
    /\ page = <<>>
    /\ args = [max_results |-> 5, is_news |-> FALSE]
    /\ ext = no_ext
    /\ served = <<>>
    /\ \E summarizer \in BOOLEAN, name \in NameEntries :
         gui = gui_widgets(summarizer, name)

\* mutant: the button is left enabled while the analysis runs
start_analysis_button_enabled(g) ==
    IF ~g.summarizer THEN [g EXCEPT !.dialog = "config_error"]
    ELSE IF Strip(g.name_entry) = <<>> THEN [g EXCEPT !.dialog = "input_warning"]
    ELSE [g EXCEPT !.progress = TRUE,
                   !.status = "running",
                   !.texts = empty_texts,
                   !.workers = Append(@, [pc |-> "run", name |-> Strip(g.name_entry),
                                          posts |-> 0])]

\* _start_analysis: the command of the analyze button
start_analysis(g) ==
    IF ~g.summarizer THEN [g EXCEPT !.dialog = "config_error"]
    ELSE IF Strip(g.name_entry) = <<>> THEN [g EXCEPT !.dialog = "input_warning"]
    ELSE [g EXCEPT !.button = "disabled",
                   !.progress = TRUE,
                   !.status = "running",
                   !.texts = empty_texts,
                   !.workers = Append(@, [pc |-> "run", name |-> Strip(g.name_entry),
                                          posts |-> 0])]

\* text.insert(1.0, result[key]) if result.get(key)
insert_text(shown, text) == IF Truthy(text) THEN text \o shown ELSE shown

\* _update_results
update_results(g, result) ==
    [g EXCEPT !.progress = FALSE,
              !.button = "normal",
              !.status = "done",
              !.texts = [f \in DOMAIN @ |-> insert_text(@[f], result[f])]]

\* the text the except branch of _analyze_company builds
ERR_ANALYSIS == <<"bunseok jung oryu">>

\* _show_error: the message box shows error_msg
show_error(g, error_msg) ==
    [g EXCEPT !.progress = FALSE,
              !.button = "normal",
              !.status = "error",
              !.dialog = IF error_msg = <<>> THEN "error_blank" ELSE "error"]

GuiUnchanged ==
    UNCHANGED <<pc, via, env, client, company_name, company_url, search_results,
                website_content, out, log, page, args, ext, served>>

\* the user edits the company name entry
EditName ==
    /\ via = "gui" /\ gui.dialog = "none"
    /\ \E name \in NameEntries \ {gui.name_entry} :
         gui' = [gui EXCEPT !.name_entry = name]
    /\ GuiUnchanged

\* a click on the analyze button: a disabled button does not run its command,
\* and an open message box holds the grab
ClickStart ==
    /\ via = "gui" /\ gui.dialog = "none"
    /\ gui.button = "normal"
    /\ Len(gui.workers) < MaxClicks
    /\ gui' = start_analysis(gui)
    /\ GuiUnchanged

\* the user closes the message box
DismissDialog ==
    /\ via = "gui" /\ gui.dialog # "none"
    /\ gui' = [gui EXCEPT !.dialog = "none"]
    /\ GuiUnchanged

\* _analyze_company, in the thread: result = self.summarizer.summarize_company(...)
WorkerRun(w) ==
    /\ via = "gui" /\ gui.workers[w].pc = "run"
    /\ \E outcome \in WorkerOutcomes :
         gui' = [gui EXCEPT !.workers[w] =
                    [pc |-> "post", name |-> @.name, posts |-> @.posts,
                     outcome |-> outcome]]
    /\ GuiUnchanged

\* _analyze_company, in the thread: root.after(0, self._update_results, result),
\* or root.after(0, self._show_error, error_msg) in the except branch
WorkerPost(w) ==
    /\ via = "gui" /\ gui.workers[w].pc = "post"
    /\ LET o == gui.workers[w].outcome
           cb == IF o.raised
                 THEN [fn |-> "_show_error", worker |-> w,
                       error_msg |-> ERR_ANALYSIS]
                 ELSE [fn |-> "_update_results", worker |-> w, result |-> o.value]
       IN  gui' = [gui EXCEPT !.after_queue = Append(@, cb),
                              !.workers[w].pc = "posted",
                              !.workers[w].posts = @ + 1]
    /\ GuiUnchanged

\* the main loop runs the oldest callback scheduled with root.after(0, ...)
RunCallback ==
    /\ via = "gui" /\ gui.after_queue # <<>>
    /\ LET cb == Head(gui.after_queue)
           g == [gui EXCEPT !.after_queue = Tail(@), !.workers[cb.worker].pc = "done"]
       IN  gui' = IF cb.fn = "_update_results"
                  THEN update_results(g, cb.result)
                  ELSE show_error(g, cb.error_msg)
    /\ GuiUnchanged

NextGui ==
    \/ EditName \/ ClickStart \/ DismissDialog \/ RunCallback
    \/ \E w \in 1..Len(gui.workers) : WorkerRun(w)
    \/ \E w \in 1..Len(gui.workers) : WorkerPost(w)

SpecGui == InitGui /\ [][NextGui]_vars

---------------------------------------------------------------------------
(* Properties of the extractor *)

Titled(e) == "title_elem" \in DOMAIN e /\ e.title_elem.text # <<>>

\* index of the first block of cands whose parsing raises (Len + 1: none does)
FirstRaise(cands) ==
    IF \E i \in 1..Len(cands) : cands[i].raises
    THEN CHOOSE i \in 1..Len(cands) :
            cands[i].raises /\ \A j \in 1..(i - 1) : ~cands[j].raises
    ELSE Len(cands) + 1

\* titles of the titled blocks of cands that precede the first raising one
TitlesParsed(cands) ==
    LET upto == SubSeq(cands, 1, FirstRaise(cands) - 1)
        kept == SelectSeq(upto, Titled)
    IN  [i \in 1..Len(kept) |-> kept[i].title_elem.text]

TitlesOf(results) == [i \in 1..Len(results) |-> results[i].title]

MatchesA == find_all_class(page, CLS_RESULT)
MatchesB == find_all_class(page, CLS_WEB_RESULT)
MatchesC == find_all_resultish(page)

Extracted == pc = "ext_done" /\ ext.outcome = "ok"

\* C4 (as claimed): a document with N strategy-A blocks, extracted with
\* max_results = 5 and is_news = False, yields exactly min(N, 5) results, each
\* with a non-empty title, and never more than max_results results.
C4_ExactlyMinN5 ==
    Extracted =>
        /\ Len(ext.results) <= args.max_results
        /\ \A i \in 1..Len(ext.results) : ext.results[i].title # <<>>
        /\ (args.max_results = 5 /\ ~args.is_news)
              => Len(ext.results) = Min(Len(MatchesA), 5)

\* C4 (amended): with N >= 1 strategy-A blocks the results are, in document
\* order, the titled blocks among the first min(N, max_results) strategy-A
\* blocks that precede any block whose parsing raises: at most min(N,
\* max_results) results, each with a non-empty title.
C4_TitledAmongFirstMin ==
    Extracted =>
        /\ Len(ext.results) <= args.max_results
        /\ \A i \in 1..Len(ext.results) : ext.results[i].title # <<>>
        /\ Len(MatchesA) >= 1 =>
              /\ TitlesOf(ext.results) =
                    TitlesParsed(Take(MatchesA, args.max_results))
              /\ Len(ext.results) <= Min(Len(MatchesA), args.max_results)

\* six strategy-A blocks, one of the first five untitled: four results
C4_Witness ==
    /\ Extracted /\ args.max_results = 5 /\ ~args.is_news
    /\ Len(MatchesA) = 6 /\ Len(ext.results) = 4

\* C5 (as claimed): the candidates come from the first strategy in the order
\* A, B, C that has a match, and with zero strategy-A matches and M strategy-C
\* matches the extractor returns min(M, 5) results.
C5_FallbackMinM5 ==
    Extracted =>
        LET chosen == IF MatchesA # <<>> THEN MatchesA
                      ELSE IF MatchesB # <<>> THEN MatchesB ELSE MatchesC
        IN  /\ \A i \in 1..Len(ext.results) :
                  \E j \in 1..Len(chosen) :
                      Titled(chosen[j]) /\ chosen[j].title_elem.text = ext.results[i].title
            /\ (args.max_results = 5 /\ Len(MatchesA) = 0)
                  => Len(ext.results) = Min(Len(MatchesC), 5)

\* C5 (amended): the candidates come from exactly one strategy, the first of
\* A, B, C with a match; with zero strategy-A matches the results are the
\* titled blocks among the first min(K, max_results) strategy-B matches when B
\* has K >= 1 matches, and otherwise among the first min(M, max_results)
\* strategy-C matches: at most min(M, max_results), and zero when no candidate
\* carries a title.
C5_FirstStrategyOnly ==
    Extracted =>
        LET chosen == IF MatchesA # <<>> THEN MatchesA
                      ELSE IF MatchesB # <<>> THEN MatchesB ELSE MatchesC
        IN  /\ TitlesOf(ext.results) =
                  TitlesParsed(Take(chosen, args.max_results))
            /\ Len(MatchesA) = 0 =>
                  Len(ext.results) <= Min(Len(MatchesC), args.max_results)

\* no strategy-A block, one strategy-B block shadowing a larger strategy-C set
C5_Witness ==
    /\ Extracted /\ args.max_results = 5
    /\ Len(MatchesA) = 0 /\ Len(MatchesB) = 1 /\ Len(MatchesC) = 3
    /\ Len(ext.results) = 1

\* C10: every result the extractor returns has a link that is empty or an
\* absolute URL, whatever the href and whatever the HEAD request does.
C10_LinkEmptyOrAbsolute ==
    pc = "ext_done" =>
        \A i \in 1..Len(ext.results) :
            \/ ext.results[i].link = <<>>
            \/ StartsWith(ext.results[i].link, <<"http">>)

---------------------------------------------------------------------------
(* Properties of one request *)

SectionNames == {"overview", "talent_profile", "recent_vision"}

\* C1: summarize_company never raises; it returns the three sections, each a
\* text, whatever the inputs, the credentials and the outbound calls do.
C1_NeverRaises ==
    /\ pc # "raised"
    /\ pc = "done" => \A f \in SectionNames : out[f].variant # "unset"

\* C2 (as claimed): summarize_company called with an empty company name issues
\* no outbound request and no model call and runs no part of the pipeline.
C2_EmptyNameNoIO ==
    company_name = <<>> => (log = <<>> /\ search_results = <<>> /\ out = no_out)

\* C2 (amended): main() rejects an empty or blank company name before the
\* summarizer is constructed or called, so that no outbound request, no model
\* call and no pipeline step happens; summarize_company itself does not check
\* its argument.
C2_MainRejectsEmptyName ==
    (via = "main" /\ pc # "start" /\ company_name = <<>>) =>
        /\ pc = "rejected"
        /\ log = <<>> /\ served = <<>>
        /\ search_results = <<>> /\ out = no_out /\ ~client

\* a blank name was entered at the prompt and the program has ended
C2_Witness == via = "main" /\ pc = "rejected" /\ log = <<>>

SearchDone == pc \in {"fetch_site", "overview", "talent", "vision", "done", "raised"}

\* what one query yields from the answer it was served
Yield(answer, cap, is_news) ==
    IF "SERPAPI_KEY" \in env
    THEN LET key == IF is_news THEN "news_results" ELSE "organic_results"
             items == IF key \in DOMAIN answer.data
                      THEN Take(answer.data[key], cap) ELSE <<>>
         IN  serp_results("ok", [k \in {key} |-> items], key, cap, is_news)
    ELSE extract(answer.data, cap, is_news).results

EntryLines(section) == SelectSeq(section.lines, LAMBDA l : l.k = "entry")

HasNewsMarker(r) == Contains(r.title, KW_NEWS) \/ Contains(r.title, KW_GISA)

\* the results the news query contributed: the only ones carrying a date key
NewsQueryResults == SelectSeq(search_results, LAMBDA r : "date" \in DOMAIN r)

DatedEntry(l, r) == "date" \in DOMAIN l /\ l.date = r.date /\ l.title = r.title

NoCredentialsDone == pc = "done" /\ env = {}

\* C9 (as claimed): with no credentials every result of the news query (up to
\* the cap of five) is a numbered entry of recent_vision prefixed by its date,
\* whatever the date text, the empty one included.
C9_EveryNewsResultDated ==
    NoCredentialsDone =>
        \A i \in 1..Min(5, Len(NewsQueryResults)) :
            \E j \in 1..Len(EntryLines(out.recent_vision)) :
                DatedEntry(EntryLines(out.recent_vision)[j], NewsQueryResults[i])

\* C9 (amended): with no credentials the dated entries of recent_vision are, in
\* order, the first five results of the whole ResultSet that carry a non-empty
\* date or whose title contains the news/article marker, each numbered and
\* prefixed by its date; a news-query result with an empty date and no marker
\* in its title is not rendered with a date prefix.
C9_DatedOrMarkedNewsDated ==
    NoCredentialsDone =>
        LET entries == EntryLines(out.recent_vision)
            dated == SelectSeq(entries, LAMBDA l : "date" \in DOMAIN l)
            subset == SelectSeq(search_results,
                        LAMBDA r : ("date" \in DOMAIN r /\ r.date # <<>>)
                                   \/ HasNewsMarker(r))
        IN  /\ Len(dated) = Min(5, Len(subset))
            /\ \A i \in 1..Len(dated) :
                 /\ dated[i].n = i
                 /\ dated[i].title = subset[i].title
                 /\ dated[i].date = Get(subset[i], "date", DATE_UNKNOWN)
            /\ \A i \in 1..Len(search_results) :
                 LET r == search_results[i]
                 IN  ("date" \in DOMAIN r /\ r.date = <<>> /\ ~HasNewsMarker(r))
                        => ~\E j \in 1..Len(dated) : DatedEntry(dated[j], r)

\* the news query returned a dated result and one with neither date nor marker
C9_Witness ==
    /\ NoCredentialsDone
    /\ \E i \in 1..Len(NewsQueryResults) : NewsQueryResults[i].date = TXT_DATE
    /\ \E i \in 1..Len(search_results) : HasNewsMarker(search_results[i])
    /\ Len(SelectSeq(EntryLines(out.recent_vision),
                     LAMBDA l : "date" \in DOMAIN l)) = 2

---------------------------------------------------------------------------
(* Properties of the section functions *)

TalentKeywords == {KW_INJAESANG, KW_CHAEYONG, KW_INJAE, KW_INSA, KW_INJAEGWAN}

HasTalentKeyword(r) ==
    \E kw \in TalentKeywords : Contains(Lower(r.title \o r.snippet), kw)

TalentSubset == SelectSeq(search_results, HasTalentKeyword)

TalentReturned ==
    via = "sections" /\ pc = "returned" /\ out.talent_profile.variant # "unset"

\* C6: the talent filter keeps, in input order and without removing duplicates,
\* exactly the results whose lower-cased title+snippet contains a talent
\* keyword, and the model variant and the fallback variant keep the same subset.
C6_TalentFilterPartition ==
    TalentReturned =>
        /\ keyword_filter(search_results, talent_keywords_model) =
              keyword_filter(search_results, talent_keywords_fallback)
        /\ client =>
              log[1].items =
                 [i \in 1..Min(3, Len(TalentSubset)) |->
                     [title |-> TalentSubset[i].title,
                      snippet |-> TalentSubset[i].snippet]]
        /\ ~client =>
              LET entries == EntryLines(out.talent_profile)
              IN  /\ Len(entries) = Min(5, Len(TalentSubset))
                  /\ \A i \in 1..Len(entries) :
                        entries[i].n = i /\ entries[i].title = TalentSubset[i].title

\* a keyword that spans the end of the title and the start of the snippet is
\* kept, a result without keyword between two kept ones is dropped
C6_Witness ==
    /\ TalentReturned /\ ~client
    /\ Len(search_results) = 3 /\ Len(TalentSubset) = 2
    /\ search_results[1].title = <<"in">>
    /\ ~HasTalentKeyword(search_results[2])

ModelFailed == via = "sections" /\ served # <<>> /\ ~served[1].outcome.ok

HasQuotaMarker(e) == \E i \in 1..Len(e) : e[i] \in {"insufficient_quota", "429"}
HasAuthMarker(e) == \E i \in 1..Len(e) : e[i] \in {"invalid_api_key", "401"}

\* C7: a failed model call makes the section a diagnostic, never an exception:
\* quota-exceeded when the error text has a quota marker, else invalid-key when
\* it has an auth marker, else the generic message carrying the error text.
C7_ErrorClassified ==
    ModelFailed =>
        LET e == served[1].outcome.error
            d == out[served[1].call]
        IN  /\ pc = "returned"
            /\ d.variant = "diagnostic"
            /\ HasQuotaMarker(e) => d.category = "quota_exceeded"
            /\ (~HasQuotaMarker(e) /\ HasAuthMarker(e)) => d.category = "auth_invalid"
            /\ (~HasQuotaMarker(e) /\ ~HasAuthMarker(e))
                  => (d.category = "other" /\ d.raw = e)

\* an error text with an auth marker and a quota marker is reported as quota
C7_Witness ==
    /\ ModelFailed
    /\ HasQuotaMarker(served[1].outcome.error)
    /\ HasAuthMarker(served[1].outcome.error)
    /\ out[served[1].call].category = "quota_exceeded"

HasHint(section) == \E i \in 1..Len(section.lines) : section.lines[i].k = "hint"

FallbackTalentReturned == TalentReturned /\ ~client

\* C8 (as claimed): the fallback talent_profile has the closing hint exactly
\* when no result matches a talent keyword, whatever the homepage content.
C8_HintIffNoTalentResult ==
    FallbackTalentReturned =>
        (HasHint(out.talent_profile) <=> TalentSubset = <<>>)

\* C8 (amended): the fallback talent_profile has the closing hint exactly when
\* no result matches a talent keyword and the homepage content is absent,
\* empty, or mentions neither 인재상 nor 채용.
C8_HintIffNothingOnTalent ==
    FallbackTalentReturned =>
        (HasHint(out.talent_profile) <=>
            /\ TalentSubset = <<>>
            /\ \/ website_content.len <= 0
               \/ website_content.kw \cap {KW_INJAESANG, KW_CHAEYONG} = {})

\* no talent result, but the homepage mentions 채용: no hint
C8_Witness ==
    /\ FallbackTalentReturned
    /\ search_results # <<>> /\ TalentSubset = <<>>
    /\ KW_CHAEYONG \in website_content.kw
    /\ ~HasHint(out.talent_profile)

---------------------------------------------------------------------------
(* Properties of the Search Aggregator *)

PipelineRun == via \in {"main", "direct"}

\* C11: every result of the ResultSet that _search_company_info returns has a
\* non-empty title, with the paid API and with the scraped pages alike: a
\* candidate without title is discarded, not kept.
C11_KeptTitleNonEmpty ==
    (PipelineRun /\ SearchDone) =>
        \A i \in 1..Len(search_results) : search_results[i].title # <<>>

\* the GET requests for a search result page, in the order they were issued
ScrapeGets == SelectSeq(log, LAMBDA c : c.kind = "GET" /\ "q" \in DOMAIN c)

\* C12: in the free-scrape strategy the general search requests the result
\* page for "{name} 회사 소개 인재상" and the news search the result page for
\* "{name} 최근 뉴스 비전 전략", so the two fetches of one request target
\* different queries.
C12_PageFollowsQuery ==
    (PipelineRun /\ SearchDone /\ "SERPAPI_KEY" \notin env) =>
        /\ Len(ScrapeGets) = 2
        /\ ScrapeGets[1].q = company_name \o QUERY_GENERAL
        /\ ScrapeGets[2].q = company_name \o QUERY_NEWS
        /\ ScrapeGets[1].q # ScrapeGets[2].q

SearchReturned == via = "search" /\ pc = "searched"

\* the titles of what a query was served, in the order of the source
SourceTitles(answer, key) ==
    IF "SERPAPI_KEY" \in env
    THEN IF answer.outcome = "ok" /\ key \in DOMAIN answer.data
         THEN [i \in 1..Len(answer.data[key]) |-> answer.data[key][i].title]
         ELSE <<>>
    ELSE [i \in 1..Len(answer.data) |-> answer.data[i].title_elem.text]

\* C15: the ResultSet is the general-query results (at most 5) followed by the
\* news-query results (at most 3), each part in the order of its source, and
\* no duplicate is removed.
C15_GeneralThenNews ==
    SearchReturned =>
        LET general == Take(SourceTitles(served[1], "organic_results"), 5)
            news == Take(SourceTitles(served[2], "news_results"), 3)
        IN  /\ TitlesOf(search_results) = general \o news
            /\ \A i \in 1..Len(search_results) :
                  "date" \in DOMAIN search_results[i] <=> i > Len(general)

\* six general and four news entries were served, all alike: the ResultSet has
\* five general results followed by three news results
C15_Witness ==
    /\ SearchReturned
    /\ Len(SourceTitles(served[1], "organic_results")) = 6
    /\ Len(SourceTitles(served[2], "news_results")) = 4
    /\ Len(search_results) = 8
    /\ \A i \in 1..8 : search_results[i].title = TXT_NEWS
    /\ "date" \notin DOMAIN search_results[5] /\ "date" \in DOMAIN search_results[6]

---------------------------------------------------------------------------
(* Properties of the extractor's error policy *)

\* the candidate blocks of the page served to the extractor call
Candidates == result_elements(page, args.max_results)

\* C14: a parse exception raised while processing one candidate skips only that
\* candidate: every other candidate, before and after it, is examined and, if
\* it has a title, returned; the extractor never raises to its caller.
C14_ParseErrorSkipsOne ==
    Extracted =>
        LET sound == SelectSeq(Candidates, LAMBDA e : ~e.raises /\ Titled(e))
        IN  /\ ext.examined = Len(Candidates)
            /\ TitlesOf(ext.results) =
                  [i \in 1..Len(sound) |-> sound[i].title_elem.text]

---------------------------------------------------------------------------
(* Properties of the variant selection *)

ByModelVariant(section) == section.variant \in {"model", "diagnostic"}
ByFallbackVariant(section) == section.variant = "fallback"

ModelCalls == SelectSeq(log, LAMBDA c : c.kind = "MODEL")

Constructed == PipelineRun /\ pc \notin {"start", "rejected", "construct"}

\* C13 (as claimed): with OPENAI_API_KEY present every section of a request is
\* produced by the model variant; with the key absent every section is produced
\* by the fallback variant and no model call is made.
C13_VariantByCredential ==
    (PipelineRun /\ pc = "done") =>
        /\ "OPENAI_API_KEY" \in env =>
              \A f \in SectionNames : ByModelVariant(out[f])
        /\ "OPENAI_API_KEY" \notin env =>
              /\ \A f \in SectionNames : ByFallbackVariant(out[f])
              /\ ModelCalls = <<>>

\* C13 (amended): the variant is fixed at construction by whether a model
\* client was built, which needs OPENAI_API_KEY to be present and the client
\* constructor not to raise.  With a client every section produced is by the
\* model variant; without one (key absent, or constructor failed) every section
\* produced is by the fallback variant and no model call is made.  A request
\* never mixes the two.
C13_VariantByClient ==
    Constructed =>
        /\ client => "OPENAI_API_KEY" \in env
        /\ \A f \in SectionNames :
              out[f] # Unset =>
                 /\ client => ByModelVariant(out[f])
                 /\ ~client => ByFallbackVariant(out[f])
        /\ ~client => ModelCalls = <<>>
        /\ pc = "done" => \A f \in SectionNames : out[f] # Unset

\* the key is set, the constructor failed, the request ended with three
\* fallback sections and without a model call
C13_Witness ==
    /\ PipelineRun /\ pc = "done"
    /\ "OPENAI_API_KEY" \in env /\ ~client
    /\ \A f \in SectionNames : ByFallbackVariant(out[f])
    /\ ModelCalls = <<>>

---------------------------------------------------------------------------
(* Properties of the vision section *)

VisionReturned ==
    via = "sections" /\ pc = "returned" /\ out.recent_vision.variant # "unset"

\* the results with a non-empty date or a news/article marker in the title
NewsSubset ==
    SelectSeq(search_results,
              LAMBDA r : ("date" \in DOMAIN r /\ r.date \notin {<<>>, None})
                         \/ HasNewsMarker(r))

VisionKeywords ==
    { <<"bi", "jeon">>, <<"jeon", "ryak">>, <<"mok", "pyo">>, <<"bang", "hyang">>,
      <<"mi", "rae">> }

\* the results whose title+snippet contains a vision/strategy keyword
VisionSubset ==
    SelectSeq(search_results,
              LAMBDA r : \E kw \in VisionKeywords :
                            Contains(Lower(r.title \o r.snippet), kw))

StrTitles(results) == [i \in 1..Len(results) |-> Str(results[i].title)]
ItemTitles(items) == [i \in 1..Len(items) |-> items[i].title]

HasLine(section, kind) == \E i \in 1..Len(section.lines) : section.lines[i].k = kind

\* C16: in both variants of the vision section the news subset is exactly the
\* results with a non-empty date or a news/article marker in the title, in
\* input order; the vision-keyword subset is computed and used only when the
\* news subset is empty; with a non-empty news subset nothing outside it is
\* rendered.
C16_NewsThenVision ==
    VisionReturned =>
        /\ client =>
              IF NewsSubset # <<>>
              THEN /\ log[1].heading = "news"
                   /\ ItemTitles(log[1].items) = StrTitles(Take(NewsSubset, 5))
                   /\ \A i \in 1..Len(log[1].items) : "date" \in DOMAIN log[1].items[i]
              ELSE /\ log[1].heading = "vision"
                   /\ ItemTitles(log[1].items) = StrTitles(Take(VisionSubset, 3))
        /\ ~client =>
              LET entries == EntryLines(out.recent_vision)
              IN  IF NewsSubset # <<>>
                  THEN /\ HasLine(out.recent_vision, "news_title")
                       /\ ~HasLine(out.recent_vision, "vision_title")
                       /\ ~HasLine(out.recent_vision, "general_title")
                       /\ ItemTitles(entries) = StrTitles(Take(NewsSubset, 5))
                       /\ \A i \in 1..Len(entries) : "date" \in DOMAIN entries[i]
                  ELSE /\ ~HasLine(out.recent_vision, "news_title")
                       /\ HasLine(out.recent_vision, "vision_title") <=> VisionSubset # <<>>
                       /\ VisionSubset # <<>> =>
                             ItemTitles(entries) = StrTitles(Take(VisionSubset, 5))

\* a vision-keyword result and a result whose snippet is null stand next to a
\* dated one: only the news subset is rendered and the keyword filter never ran
C16_Witness ==
    /\ VisionReturned /\ ~client
    /\ Len(search_results) = 3 /\ Len(NewsSubset) = 2
    /\ \E i \in 1..3 : search_results[i].snippet = None
    /\ \E i \in 1..3 : search_results[i].title = <<"bi", "jeon">>
    /\ Len(EntryLines(out.recent_vision)) = 2

---------------------------------------------------------------------------
(* Properties of the prompts *)

PromptSent == via = "sections" /\ pc = "returned" /\ client /\ log # <<>>

\* the subset a section's prompt draws its results from
SectionSubset(section) ==
    IF section = "overview" THEN search_results
    ELSE IF section = "talent_profile" THEN TalentSubset
    ELSE IF NewsSubset # <<>> THEN NewsSubset ELSE VisionSubset

\* C17 (as claimed): the prompt embeds exactly the first min(5, k) results of
\* the section's subset for overview and for vision and the first min(3, k) for
\* talent, in ResultSet order, and never more than 2000 characters of homepage
\* content.
C17_PromptTop5Top3 ==
    PromptSent =>
        LET p == log[1]
            cap == IF p.section = "talent_profile" THEN 3 ELSE 5
        IN  /\ ItemTitles(p.items) = StrTitles(Take(SectionSubset(p.section), cap))
            /\ p.site_chars <= 2000

\* C17 (amended): the prompt embeds exactly the first min(5, k) results of the
\* subset for overview and for the news subset of vision, and the first
\* min(3, k) for talent and for the vision-keyword subset that vision uses when
\* the news subset is empty, in ResultSet order, and never more than 2000
\* characters of homepage content.
C17_PromptCaps ==
    PromptSent =>
        LET p == log[1]
            cap == IF p.section = "overview" THEN 5
                   ELSE IF p.section = "talent_profile" THEN 3
                   ELSE IF NewsSubset # <<>> THEN 5 ELSE 3
        IN  /\ ItemTitles(p.items) = StrTitles(Take(SectionSubset(p.section), cap))
            /\ p.site_chars <= 2000

\* no news result and five vision-keyword results: the vision prompt embeds
\* three of them; the homepage content offered is longer than 2000 characters
C17_Witness ==
    /\ PromptSent /\ log[1].section = "recent_vision"
    /\ NewsSubset = <<>> /\ Len(VisionSubset) = 5
    /\ Len(log[1].items) = 3
    /\ website_content.len > 2000

---------------------------------------------------------------------------
(* Properties of the desktop front-end *)

\* the workers started whose completion callback has not run yet
InFlight == {w \in 1..Len(gui.workers) : gui.workers[w].pc # "done"}

\* the callbacks a worker has in the after() queue
Scheduled(w) ==
    SelectSeq(gui.after_queue, LAMBDA cb : cb.worker = w)

\* C18: under any interleaving of clicks, the worker thread and the main-loop
\* callbacks at most one analysis worker is in flight; the start button is
\* disabled (and the progress bar runs) from the start of a worker until its
\* completion callback runs, which enables the button and stops the progress
\* bar; each worker schedules exactly one callback, the three-field result or
\* an error, never both and never one per section.
C18_OneWorkerAtATime ==
    via = "gui" =>
        /\ Cardinality(InFlight) <= 1
        /\ gui.button = "disabled" <=> InFlight # {}
        /\ gui.progress <=> InFlight # {}
        /\ \A w \in 1..Len(gui.workers) :
              LET wk == gui.workers[w]
              IN  /\ wk.posts = IF wk.pc \in {"posted", "done"} THEN 1 ELSE 0
                  /\ Len(Scheduled(w)) = IF wk.pc = "posted" THEN 1 ELSE 0
        /\ \A i \in 1..Len(gui.after_queue) :
              LET cb == gui.after_queue[i]
              IN  \/ cb.fn = "_show_error" /\ gui.workers[cb.worker].outcome.raised
                  \/ /\ cb.fn = "_update_results"
                     /\ ~gui.workers[cb.worker].outcome.raised
                     /\ DOMAIN cb.result = SectionNames

\* a second analysis was started after the first one failed and its error
\* callback ran; its result callback is scheduled and the button still disabled
C18_Witness ==
    /\ via = "gui" /\ Len(gui.workers) = 2
    /\ gui.workers[1].pc = "done" /\ gui.workers[1].outcome.raised
    /\ gui.workers[2].pc = "posted"
    /\ gui.after_queue # <<>> /\ gui.after_queue[1].fn = "_update_results"
    /\ gui.button = "disabled"

====
